---- MODULE Spec2Model ----
(***************************************************************************)
(* State-machine model of the storefront theme's browser widgets.          *)
(*                                                                         *)
(* One page holds one instance of the widget under study (`widget`); the   *)
(* widgets do not interact, so a behaviour follows a single instance.      *)
(* The browser's timer table (`timers`) and its set of fetches in flight   *)
(* (`requests`) are modelled as the browser keeps them: setTimeout adds an *)
(* entry and returns a handle, clearTimeout removes the entry a handle     *)
(* names, a fetch stays in flight until its promise settles.  Handles are  *)
(* opaque to the scripts, so the model hands out the least handle that is  *)
(* not in use instead of an ever-growing number.                           *)
(*                                                                         *)
(* Every action is one task of the event loop (an event handler, a timer   *)
(* callback, the continuation of an await).  The continuation of an        *)
(* aborted fetch is a microtask: it runs before any other task.  Where a   *)
(* handler awaits fetch() and then the body (response.json(), .text()),    *)
(* the code between the two awaits changes nothing, so the model runs the  *)
(* continuation once, when the body has settled.                           *)
(***************************************************************************)
EXTENDS Integers, Sequences, FiniteSets, TLC

VARIABLES
    widget,           \* which widget instance this page runs
    panelOpen,        \* modal: class is-active; custom element: attribute open;
                      \* facets drawer, quick view: class is-open
    inputValue,       \* input.value of the search field
    cache,            \* own properties of this.cache / this.cachedResults
    panel,            \* content of the container the widget renders into (innerHTML)
    selectedIndex,    \* modal: this.selectedIndex
    followed,         \* index of the result row whose link was followed, -1 if none
    loading,          \* custom element: attribute loading / aria-busy;
                      \* facets: class is-loading of the products container
    focused,          \* custom element: document.activeElement is inside it
    timers,           \* the browser's pending timers
    debounceTimeout,  \* modal: this.debounceTimeout; element: closure variable timeout
    requests,         \* fetches in flight
    abortController,  \* this.abortController (0: null), named by its request
    ev,               \* the handler that ran last and its argument
    lastTyped,        \* value carried by the last input event
    sinceInput,       \* debounce callbacks run since the last input event
    currentStep,      \* quiz: this.currentStep
    answers,          \* quiz: this.answers
    resultsShown,     \* quiz: the results step is not hidden
    navHidden,        \* quiz: this.nav.hidden
    products,         \* quiz: this.products
    resultsCount,     \* quiz: this.resultsCount
    recommendations,  \* quiz: handles of the products showResults rendered
    items,            \* quote: this.items
    storage,          \* quote: localStorage['quoteItems']
    uncaught,         \* the last exception or rejection no handler caught
    dataLayer,        \* analytics: the begin_checkout events in window.dataLayer
    selected,         \* quiz, multiple-choice step: values of the options that
                      \* are is-selected, in the order they were selected
    continueDisabled, \* quiz, multiple-choice step: continueBtn.disabled
    currentTheme,     \* theme: this.currentTheme of theme-toggle.js
    themeStorage,     \* theme: localStorage['reaxing-theme-preference'] ("": absent)
    legacyTheme,      \* theme: localStorage['theme'], written by global.js
    darkClass,        \* theme: the root element carries the class dark-mode
    lightClass,       \* theme: the root element carries the class light-mode
    transitioning,    \* theme: the root element carries theme-transitioning
    prefersDark,      \* theme: (prefers-color-scheme: dark) matches
    handlerOrder,     \* theme: the click listeners of a toggle button, in the
                      \* order the scripts registered them
    currentPage,      \* pagination: this.currentPage
    isLoading,        \* pagination: this.isLoading
    nextPage,         \* pagination: dataset.nextPage of the control (0: '')
    controlHidden,    \* pagination: style.display of the control is 'none'
    appended,         \* pagination: the pages whose cards were appended, in order
    loadsOk,          \* pagination: loads answered with a 2xx status so far
    control,          \* pagination: the control of the page markup
    lastPage,         \* pagination: the number of pages of the collection
    serverQty,        \* cart: the quantity of the line in the server's cart
    shownQty,         \* cart: value of the line's quantity input in the drawer
    intended,         \* cart: starting quantity plus the net of the clicks so far
    cartCount,        \* cart: text of the [data-cart-count] elements
    peerItems,        \* quote: this.items of a second page sharing localStorage
    priceTimeout,     \* facets: closure variable priceTimeout of init()
    location,         \* facets: the URL last given to history.pushState or popped
    listenersLive     \* facets: this.form / this.sortSelect still carry init()'s listeners

vars == << widget, panelOpen, inputValue, cache, panel, selectedIndex, followed,
           loading, focused, timers, debounceTimeout, requests, abortController,
           ev, lastTyped, sinceInput, currentStep, answers, resultsShown,
           navHidden, products, resultsCount, recommendations, items, storage,
           uncaught, dataLayer, selected, continueDisabled,
           currentTheme, themeStorage, legacyTheme, darkClass, lightClass,
           transitioning, prefersDark, handlerOrder, currentPage, isLoading,
           nextPage, controlHidden, appended, loadsOk, control, lastPage,
           serverQty, shownQty, intended, cartCount, peerItems, priceTimeout, location, listenersLive >>

quizData == << products, resultsCount >>
quizVars == << currentStep, answers, resultsShown, navHidden, quizData,
               recommendations >>
facetsVars == << priceTimeout, location, listenersLive >>
quoteVars == << items, storage >>
multiVars == << selected, continueDisabled >>
themeClasses == << darkClass, lightClass, transitioning >>
themeVars == << currentTheme, themeStorage, legacyTheme, themeClasses, prefersDark,
                handlerOrder >>
pagerMarkup == << control, lastPage >>
pagerVars == << currentPage, isLoading, nextPage, controlHidden, appended, loadsOk,
                pagerMarkup >>
cartVars == << serverQty, shownQty, intended, cartCount >>
pageVars == << multiVars, themeVars, pagerVars, cartVars, peerItems >>
moreVars == << quoteVars, uncaught, dataLayer, pageVars >>
otherVars == << quizVars, facetsVars, moreVars >>
searchVars == << inputValue, cache, selectedIndex, followed, focused, debounceTimeout,
                 abortController, lastTyped, sinceInput >>

-----------------------------------------------------------------------------
(* Bounds *)

MaxTimers == 2      \* timers pending at once
MaxRequests == 2    \* fetches in flight at once
MaxClock == 2       \* milliseconds Date.now() can show while the page lives
MaxEvents == 2      \* begin_checkout events window.dataLayer can hold
MaxPages == 7       \* pages a paginated collection can have
MaxQuantity == 3    \* quantity a cart line can reach

-----------------------------------------------------------------------------
(* Values *)

Min(a, b) == IF a < b THEN a ELSE b
Max(a, b) == IF a > b THEN a ELSE b

\* What the user can have in the search field.
InputValues == { "", "a ", " ab ", "<b>", "constructor" }

\* data.resources.results of a /search/suggest.json answer.
NoResults == [products |-> << >>, articles |-> << >>, pages |-> << >>]
Payloads ==
    { NoResults,
      [products |-> << "Cd rack", "Ab mat" >>, articles |-> << "Abs" >>, pages |-> << >>] }

\* Property names every object literal inherits from Object.prototype.
ObjectPrototypeKeys ==
    { "constructor", "toString", "valueOf", "hasOwnProperty", "isPrototypeOf",
      "propertyIsEnumerable", "toLocaleString", "__proto__" }

IsWhitespace(c) == c \in { " ", "\t", "\n" }

RECURSIVE TrimStart(_)
TrimStart(s) ==
    IF Len(s) > 0 /\ IsWhitespace(Head(s)) THEN TrimStart(Tail(s)) ELSE s

RECURSIVE TrimEnd(_)
TrimEnd(s) ==
    IF Len(s) > 0 /\ IsWhitespace(SubSeq(s, Len(s), Len(s)))
    THEN TrimEnd(SubSeq(s, 1, Len(s) - 1))
    ELSE s

\* String.prototype.trim
Trim(s) == TrimEnd(TrimStart(s))

RECURSIVE escapeHtml(_)
escapeHtml(text) ==
    IF Len(text) = 0 THEN ""
    ELSE LET c == Head(text)
             e == CASE c = "&" -> "&amp;"
                    [] c = "<" -> "&lt;"
                    [] c = ">" -> "&gt;"
                    [] OTHER   -> c
         IN  e \o escapeHtml(Tail(text))

\* The lower-case form of a character (String.prototype.toLowerCase; the 'i'
\* flag of a RegExp compares characters by it)
ToLower(c) ==
    CASE c = "A" -> "a" [] c = "B" -> "b" [] c = "C" -> "c" [] c = "D" -> "d"
      [] c = "M" -> "m" [] c = "R" -> "r" [] c = "S" -> "s" [] c = "T" -> "t"
      [] OTHER -> c

RECURSIVE LowerCase(_)
LowerCase(s) == IF Len(s) = 0 THEN "" ELSE ToLower(Head(s)) \o LowerCase(Tail(s))

\* html.replace(new RegExp('(' + escapeRegex(query) + ')', 'gi'), '<mark>$1</mark>')
RECURSIVE MarkAll(_, _)
MarkAll(html, query) ==
    IF Len(html) < Len(query) \/ Len(html) = 0 THEN html
    ELSE IF LowerCase(SubSeq(html, 1, Len(query))) = LowerCase(query)
    THEN "<mark>" \o SubSeq(html, 1, Len(query)) \o "</mark>"
         \o MarkAll(SubSeq(html, Len(query) + 1, Len(html)), query)
    ELSE Head(html) \o MarkAll(Tail(html), query)

\* highlightMatch(text), query being this.input.value.trim()
highlightMatch(text, query) ==
    IF Len(query) = 0 THEN escapeHtml(text) ELSE MarkAll(escapeHtml(text), query)

-----------------------------------------------------------------------------
(* The results container *)

\* kind: what the container shows; rs: the result set whose rows it lists;
\* q: the query the "view all results" link carries; text: the text written
\* into the no-results message; sel: the row of the modal's container that
\* carries the class is-selected (-1: none); hl: the term whose occurrences
\* are marked in the titles of the rows.
EmptyPanel ==
    [kind |-> "empty", rs |-> NoResults, q |-> "", text |-> "", sel |-> -1, hl |-> ""]
LoadingPanel == [EmptyPanel EXCEPT !.kind = "loading"]
ErrorPanel == [EmptyPanel EXCEPT !.kind = "error"]

\* A container holding the server-rendered fragment fetched for q.
Content(q) == [EmptyPanel EXCEPT !.kind = "content", !.q = q]

\* The titles of the rows as the container shows them, in the modal
Titles(p) ==
    LET all == p.rs.products \o p.rs.articles \o p.rs.pages
    IN  [i \in 1..Len(all) |-> highlightMatch(all[i], p.hl)]

\* Number of result rows in the container.
Rows(p) ==
    IF p.kind = "results"
    THEN Len(p.rs.products) + Len(p.rs.articles) + Len(p.rs.pages)
    ELSE 0

-----------------------------------------------------------------------------
(* The cache object *)

\* this.cache[query]: the value found (truthy or not) and what
\* data.resources?.results, with its three arrays defaulted to [], is for it.
\* An own property holds a stored answer; a name inherited from
\* Object.prototype holds a function or object, truthy and without .resources.
CacheGet(query) ==
    IF query \in DOMAIN cache
    THEN [truthy |-> TRUE, results |-> cache[query]]
    ELSE IF query \in ObjectPrototypeKeys
    THEN [truthy |-> TRUE, results |-> NoResults]
    ELSE [truthy |-> FALSE, results |-> NoResults]

\* if (this.cache[query])
CacheHit(query) == CacheGet(query).truthy

\* this.cache[query] = data
CachePut(query, data) ==
    [k \in DOMAIN cache \cup {query} |-> IF k = query THEN data ELSE cache[k]]

-----------------------------------------------------------------------------
(* Timers and fetches *)

TimerIds(ts) == { t.id : t \in ts }

\* clearTimeout(handle)
ClearTimeout(ts, handle) == { t \in ts : t.id # handle }

\* The handle setTimeout returns: one no pending timer and no kept handle has.
FreshTimer(ts, kept) ==
    CHOOSE i \in 1..(MaxTimers + 3) :
        /\ i \notin TimerIds(ts) \cup kept
        /\ \A j \in 1..(i - 1) : j \in TimerIds(ts) \cup kept

RequestIds(rs) == { r.id : r \in rs }

FreshRequest(rs) ==
    CHOOSE i \in 1..(MaxRequests + 2) :
        /\ i \notin RequestIds(rs)
        /\ \A j \in 1..(i - 1) : j \in RequestIds(rs)

NewRequest(rs, owner, q) ==
    [id |-> FreshRequest(rs), owner |-> owner, q |-> q, aborted |-> FALSE]

\* controller.abort(): the fetch using its signal, if still in flight, is aborted
Abort(rs, controller) ==
    { IF r.id = controller THEN [r EXCEPT !.aborted = TRUE] ELSE r : r \in rs }

\* An aborted fetch has rejected its promise; the continuation is a microtask.
MicrotaskPending == \E r \in requests : r.aborted

\* The page is alive (no link was followed) and no microtask is waiting.
TaskMayRun == followed = -1 /\ ~MicrotaskPending

Event(op, arg) == [op |-> op, arg |-> arg]

-----------------------------------------------------------------------------
(* Modal predictive search (src/unnamed/part_001) *)

IsModal == widget = "modal"

elemVars == << loading, focused >>

\* updateSelection(results): the row at selectedIndex alone is is-selected
updateSelection(p, index) == [p EXCEPT !.sel = index]

\* open()
ModalOpen ==
    /\ IsModal /\ TaskMayRun
    /\ Cardinality(timers) < MaxTimers
    /\ panelOpen' = TRUE
    /\ timers' = timers \cup
          { [id |-> FreshTimer(timers, {debounceTimeout}), kind |-> "focus", q |-> ""] }
    /\ ev' = Event("open", "")
    /\ UNCHANGED << widget, inputValue, cache, panel, selectedIndex, followed,
                    debounceTimeout, requests, abortController, lastTyped,
                    sinceInput, elemVars, otherVars >>

\* this.selectedIndex after close()
ModalCloseKeepsIndex == selectedIndex
ModalCloseIndex == -1

\* close(): close trigger, Escape while active, click on the overlay
ModalClose ==
    /\ IsModal /\ TaskMayRun
    /\ panelOpen' = FALSE
    /\ inputValue' = ""
    /\ panel' = EmptyPanel
    /\ selectedIndex' = ModalCloseIndex
    /\ ev' = Event("close", "")
    /\ UNCHANGED << widget, cache, followed, timers, debounceTimeout, requests,
                    abortController, lastTyped, sinceInput, elemVars, otherVars >>

\* clearTimeout(this.debounceTimeout) in handleInput
ModalNoClear(ts, handle) == ts
ModalClearDebounce(ts, handle) == ClearTimeout(ts, handle)

\* handleInput(e): the user edits the field of the open modal to v
ModalHandleInput(v) ==
    LET query   == Trim(v)
        cleared == ModalClearDebounce(timers, debounceTimeout)
        handle  == FreshTimer(cleared, {})
    IN  /\ IsModal /\ TaskMayRun /\ panelOpen
        /\ inputValue' = v
        /\ lastTyped' = v
        /\ sinceInput' = 0
        /\ ev' = Event("handleInput", query)
        /\ IF Len(query) < 2
           THEN /\ panel' = EmptyPanel
                /\ timers' = cleared
                /\ UNCHANGED debounceTimeout
           ELSE /\ Cardinality(cleared) < MaxTimers
                /\ panel' = LoadingPanel
                /\ timers' = cleared \cup
                      { [id |-> handle, kind |-> "modalSearch", q |-> query] }
                /\ debounceTimeout' = handle
        /\ UNCHANGED << widget, panelOpen, cache, selectedIndex, followed, requests,
                        abortController, elemVars, otherVars >>

\* ArrowDown / ArrowUp in handleKeydown
ModalWrapDown(sel, n) == IF sel + 1 > n - 1 THEN 0 ELSE sel + 1
ModalArrowDown(sel, n) == Min(sel + 1, n - 1)
ModalArrowUp(sel, n) == Max(sel - 1, -1)

\* handleKeydown(e) on the field of the open modal
ModalHandleKeydown(key) ==
    LET n == Rows(panel)
    IN  /\ IsModal /\ TaskMayRun /\ panelOpen
        /\ ev' = Event("keydown", key)
        /\ IF n = 0
           THEN UNCHANGED << selectedIndex, panel, followed >>
           ELSE CASE key = "ArrowDown" ->
                       /\ selectedIndex' = ModalArrowDown(selectedIndex, n)
                       /\ panel' = updateSelection(panel, selectedIndex')
                       /\ UNCHANGED followed
                  [] key = "ArrowUp" ->
                       /\ selectedIndex' = ModalArrowUp(selectedIndex, n)
                       /\ panel' = updateSelection(panel, selectedIndex')
                       /\ UNCHANGED followed
                  [] key = "Enter" ->
                       /\ followed' = IF selectedIndex >= 0 /\ selectedIndex < n
                                      THEN selectedIndex ELSE followed
                       /\ UNCHANGED << selectedIndex, panel >>
        /\ UNCHANGED << widget, panelOpen, inputValue, cache, timers,
                        debounceTimeout, requests, abortController, lastTyped,
                        sinceInput, elemVars, otherVars >>

\* The container after renderResults(data, query)
ModalRendered(rs, query) ==
        IF Len(rs.products) = 0 /\ Len(rs.articles) = 0 /\ Len(rs.pages) = 0
        THEN [kind |-> "noresults", rs |-> rs, q |-> "", text |-> escapeHtml(query),
              sel |-> -1, hl |-> ""]
        ELSE [kind |-> "results", rs |-> rs, q |-> query, text |-> "", sel |-> -1,
              hl |-> Trim(inputValue)]

\* renderResults(data, query): selectedIndex is reset on the path that lists rows
ModalRenderResults(rs, query) ==
    /\ panel' = ModalRendered(rs, query)
    /\ selectedIndex' = IF panel'.kind = "results" THEN -1 ELSE selectedIndex

\* if (this.abortController) this.abortController.abort()
ModalAbortPrevious(rs, controller) == Abort(rs, controller)

\* if (this.cache[query]) in search
ModalCacheMiss(query) == FALSE
ModalCacheHit(query) == CacheHit(query)

\* search(query) up to its first await
ModalSearch(query) ==
    IF ModalCacheHit(query)
    THEN /\ ModalRenderResults(CacheGet(query).results, query)
         /\ UNCHANGED << requests, abortController >>
    ELSE LET prior == ModalAbortPrevious(requests, abortController)
             req   == NewRequest(prior, "modal", query)
         IN  /\ Cardinality(prior) < MaxRequests
             /\ requests' = prior \cup {req}
             /\ abortController' = req.id
             /\ UNCHANGED << panel, selectedIndex >>

\* A timer of the modal fires: the debounced search, or the focus after open()
ModalTimerFires(t) ==
    /\ IsModal /\ TaskMayRun
    /\ t \in timers
    /\ timers' = timers \ {t}
    /\ IF t.kind = "modalSearch"
       THEN /\ ModalSearch(t.q)
            /\ ev' = Event("search", t.q)
            /\ sinceInput' = Min(sinceInput + 1, 2)
       ELSE /\ ev' = Event("focus", "")
            /\ UNCHANGED << panel, selectedIndex, requests, abortController,
                            sinceInput >>
    /\ UNCHANGED << widget, panelOpen, inputValue, cache, followed, debounceTimeout,
                    lastTyped, elemVars, otherVars >>

\* The container after the catch block of search
ModalErrorIgnored == panel
ModalErrorRendered == ErrorPanel

\* The try block of search fails: fetch rejects (network), the response is not
\* ok (status), or response.json() rejects (parse).  The catch block runs.
ModalFetchFails(r, why) ==
    /\ IsModal /\ TaskMayRun
    /\ r \in requests
    /\ requests' = requests \ {r}
    /\ panel' = ModalErrorRendered
    /\ ev' = Event("failed", why)
    /\ UNCHANGED << widget, panelOpen, inputValue, cache, selectedIndex, followed,
                    timers, debounceTimeout, abortController, lastTyped, sinceInput,
                    elemVars, otherVars >>

\* The response is ok and response.json() gives data: the rest of the try block
ModalFetchSucceeds(r, data) ==
    /\ IsModal /\ TaskMayRun
    /\ r \in requests
    /\ requests' = requests \ {r}
    /\ cache' = CachePut(r.q, data)
    /\ ModalRenderResults(data, r.q)
    /\ ev' = Event("rendered", r.q)
    /\ UNCHANGED << widget, panelOpen, inputValue, followed, timers, debounceTimeout,
                    abortController, lastTyped, sinceInput, elemVars, otherVars >>

\* The await of an aborted fetch rejects with AbortError: the catch returns
ModalAbortDelivered(r) ==
    /\ IsModal /\ followed = -1
    /\ r \in requests /\ r.aborted
    /\ requests' = requests \ {r}
    /\ ev' = Event("aborted", r.q)
    /\ UNCHANGED << widget, panelOpen, inputValue, cache, panel, selectedIndex,
                    followed, timers, debounceTimeout, abortController, lastTyped,
                    sinceInput, elemVars, otherVars >>

Keys == { "ArrowDown", "ArrowUp", "Enter" }
Failures == { "network", "status", "parse" }

ModalNext ==
    \/ ModalOpen
    \/ ModalClose
    \/ \E v \in InputValues : ModalHandleInput(v)
    \/ \E key \in Keys : ModalHandleKeydown(key)
    \/ \E t \in timers : ModalTimerFires(t)
    \/ \E r \in requests, why \in Failures : ModalFetchFails(r, why)
    \/ \E r \in requests, data \in Payloads : ModalFetchSucceeds(r, data)
    \/ \E r \in requests : ModalAbortDelivered(r)

-----------------------------------------------------------------------------
(* Custom-element predictive search (src/assets/analytics.js) *)

IsElem == widget = "element"

\* close()
ElemClose ==
    /\ panelOpen' = FALSE
    /\ panel' = EmptyPanel
    /\ selectedIndex' = -1

\* The container after renderSearchResults(data)
ElemRendered(rs) ==
    IF Len(rs.products) = 0 /\ Len(rs.articles) = 0 /\ Len(rs.pages) = 0
    THEN [kind |-> "noresults", rs |-> rs, q |-> "", text |-> inputValue, sel |-> -1,
          hl |-> ""]
    ELSE [kind |-> "results", rs |-> rs, q |-> "", text |-> "", sel |-> -1, hl |-> ""]

\* renderSearchResults(data): new items (none aria-selected), then open()
ElemRenderSearchResults(rs) ==
    /\ panel' = ElemRendered(rs)
    /\ selectedIndex' = -1
    /\ panelOpen' = TRUE

\* The container after renderError()
ElemErrorRendered == ErrorPanel

\* renderError(), then open()
ElemRenderError ==
    /\ panel' = ElemErrorRendered
    /\ selectedIndex' = -1
    /\ panelOpen' = TRUE

\* if (this.abortController) this.abortController.abort()
ElemAbortPrevious(rs, controller) == Abort(rs, controller)

\* if (this.cachedResults[searchTerm])
ElemCacheHit(searchTerm) == CacheHit(searchTerm)

\* getSearchResults(searchTerm) up to its first await
ElemGetSearchResults(searchTerm) ==
    IF ElemCacheHit(searchTerm)
    THEN /\ ElemRenderSearchResults(CacheGet(searchTerm).results)
         /\ UNCHANGED << requests, abortController, loading >>
    ELSE LET prior == ElemAbortPrevious(requests, abortController)
             req   == NewRequest(prior, "element", searchTerm)
         IN  /\ Cardinality(prior) < MaxRequests
             /\ requests' = prior \cup {req}
             /\ abortController' = req.id
             /\ loading' = TRUE
             /\ UNCHANGED << panel, selectedIndex, panelOpen >>

\* clearTimeout(timeout) in the function debounce() returns
ElemClearDebounce(ts, handle) == ClearTimeout(ts, handle)

\* input event: the user edits the focused field to v; the debounced listener
ElemInput(v) ==
    LET cleared == ElemClearDebounce(timers, debounceTimeout)
        handle  == FreshTimer(cleared, {})
    IN  /\ IsElem /\ TaskMayRun /\ focused
        /\ Cardinality(cleared) < MaxTimers
        /\ inputValue' = v
        /\ lastTyped' = v
        /\ sinceInput' = 0
        /\ timers' = cleared \cup { [id |-> handle, kind |-> "elemInput", q |-> ""] }
        /\ debounceTimeout' = handle
        /\ ev' = Event("input", Trim(v))
        /\ UNCHANGED << widget, panelOpen, cache, panel, selectedIndex, followed,
                        loading, focused, requests, abortController, otherVars >>

\* onChange(), run by the debounce timer
ElemOnChange ==
    LET searchTerm == Trim(inputValue)
    IN  IF Len(searchTerm) = 0
        THEN /\ ElemClose
             /\ ev' = Event("onChange", searchTerm)
             /\ UNCHANGED << requests, abortController, loading >>
        ELSE IF Len(searchTerm) < 2
        THEN /\ ev' = Event("onChange", searchTerm)
             /\ UNCHANGED << panelOpen, panel, selectedIndex, requests,
                             abortController, loading >>
        ELSE /\ ElemGetSearchResults(searchTerm)
             /\ ev' = Event("search", searchTerm)

\* A timer of the element fires: the debounced onChange, or the check that
\* onFocusOut scheduled
ElemTimerFires(t) ==
    /\ IsElem /\ TaskMayRun
    /\ t \in timers
    /\ timers' = timers \ {t}
    /\ IF t.kind = "elemInput"
       THEN /\ ElemOnChange
            /\ sinceInput' = Min(sinceInput + 1, 2)
       ELSE /\ IF ~focused
               THEN ElemClose
               ELSE UNCHANGED << panelOpen, panel, selectedIndex >>
            /\ ev' = Event("focusOutTimer", "")
            /\ UNCHANGED << requests, abortController, loading, sinceInput >>
    /\ UNCHANGED << widget, inputValue, cache, followed, focused, debounceTimeout,
                    lastTyped, otherVars >>

\* onFocus(): the field gains the focus
ElemOnFocus ==
    LET searchTerm == Trim(inputValue)
    IN  /\ IsElem /\ TaskMayRun /\ ~focused
        /\ focused' = TRUE
        /\ IF Len(searchTerm) >= 2
           THEN /\ IF CacheHit(searchTerm)
                   THEN /\ ElemRenderSearchResults(CacheGet(searchTerm).results)
                        /\ UNCHANGED << requests, abortController, loading >>
                   ELSE ElemGetSearchResults(searchTerm)
                /\ ev' = Event("search", searchTerm)
           ELSE /\ ev' = Event("onFocus", searchTerm)
                /\ UNCHANGED << panelOpen, panel, selectedIndex, requests,
                                abortController, loading >>
        /\ UNCHANGED << widget, inputValue, cache, followed, timers, debounceTimeout,
                        lastTyped, sinceInput, otherVars >>

\* onFocusOut(): the focus leaves the element; the check runs 200 ms later
ElemOnFocusOut ==
    /\ IsElem /\ TaskMayRun /\ focused
    /\ Cardinality(timers) < MaxTimers
    /\ focused' = FALSE
    /\ timers' = timers \cup
          { [id |-> FreshTimer(timers, {debounceTimeout}), kind |-> "focusOut", q |-> ""] }
    /\ ev' = Event("onFocusOut", "")
    /\ UNCHANGED << widget, panelOpen, inputValue, cache, panel, selectedIndex,
                    followed, loading, debounceTimeout, requests, abortController,
                    lastTyped, sinceInput, otherVars >>

\* navigateResults(direction): the index of the item made aria-selected
ElemClampUp(index, n) == Max(index - 1, -1)
ElemNavigateUp(index, n) == IF index > 0 THEN index - 1 ELSE n - 1
ElemNavigateDown(index, n) == IF index < n - 1 THEN index + 1 ELSE 0

\* onKeydown(event) while the focus is in the element
ElemOnKeydown(key) ==
    LET n == Rows(panel)
    IN  /\ IsElem /\ TaskMayRun /\ focused
        /\ ev' = Event("keydown", key)
        /\ CASE key = "ArrowUp" ->
                  /\ selectedIndex' = IF n = 0 THEN selectedIndex
                                      ELSE ElemNavigateUp(selectedIndex, n)
                  /\ UNCHANGED << panelOpen, panel, followed >>
             [] key = "ArrowDown" ->
                  /\ selectedIndex' = IF n = 0 THEN selectedIndex
                                      ELSE ElemNavigateDown(selectedIndex, n)
                  /\ UNCHANGED << panelOpen, panel, followed >>
             [] key = "Enter" ->
                  /\ followed' = IF selectedIndex >= 0 THEN selectedIndex ELSE followed
                  /\ UNCHANGED << panelOpen, panel, selectedIndex >>
             [] key = "Escape" ->
                  /\ ElemClose
                  /\ UNCHANGED followed
        /\ UNCHANGED << widget, inputValue, cache, loading, focused, timers,
                        debounceTimeout, requests, abortController, lastTyped,
                        sinceInput, otherVars >>

\* The try block of getSearchResults fails: fetch rejects (network), the
\* response is not ok (status), or response.json() rejects (parse).  The catch
\* block, then the finally block run.
ElemFetchFails(r, why) ==
    /\ IsElem /\ TaskMayRun
    /\ r \in requests
    /\ requests' = requests \ {r}
    /\ ElemRenderError
    /\ loading' = FALSE
    /\ ev' = Event("failed", why)
    /\ UNCHANGED << widget, inputValue, cache, followed, focused, timers,
                    debounceTimeout, abortController, lastTyped, sinceInput, otherVars >>

\* The response is ok and response.json() gives data: the rest of the try
\* block, then the finally block
ElemFetchSucceeds(r, data) ==
    /\ IsElem /\ TaskMayRun
    /\ r \in requests
    /\ requests' = requests \ {r}
    /\ cache' = CachePut(r.q, data)
    /\ ElemRenderSearchResults(data)
    /\ loading' = FALSE
    /\ ev' = Event("rendered", r.q)
    /\ UNCHANGED << widget, inputValue, followed, focused, timers, debounceTimeout,
                    abortController, lastTyped, sinceInput, otherVars >>

\* The await of an aborted fetch rejects with AbortError: only finally runs
ElemAbortDelivered(r) ==
    /\ IsElem /\ followed = -1
    /\ r \in requests /\ r.aborted
    /\ requests' = requests \ {r}
    /\ loading' = FALSE
    /\ ev' = Event("aborted", r.q)
    /\ UNCHANGED << widget, panelOpen, inputValue, cache, panel, selectedIndex,
                    followed, focused, timers, debounceTimeout, abortController,
                    lastTyped, sinceInput, otherVars >>

ElemKeys == { "ArrowDown", "ArrowUp", "Enter", "Escape" }

ElemNext ==
    \/ \E v \in InputValues : ElemInput(v)
    \/ \E t \in timers : ElemTimerFires(t)
    \/ ElemOnFocus
    \/ ElemOnFocusOut
    \/ \E key \in ElemKeys : ElemOnKeydown(key)
    \/ \E r \in requests, why \in Failures : ElemFetchFails(r, why)
    \/ \E r \in requests, data \in Payloads : ElemFetchSucceeds(r, data)
    \/ \E r \in requests : ElemAbortDelivered(r)

-----------------------------------------------------------------------------
(* Product quiz (src/assets/quote-system.js, class ProductQuiz) *)

IsQuiz == widget = "quiz"

\* The question type of each step of the quiz markup (data-question-type)
QuizStepTypes == << "single", "single", "single" >>
totalSteps == Len(QuizStepTypes)

\* data-question-key of each step
QuizStepKeys == << "goal", "space", "budget" >>

\* data-value of the options of each single-choice step, by question key
QuizOptions ==
    [goal |-> { "strength", "cardio" }, space |-> { "large", "small" },
     budget |-> { "low", "high" }]

\* The products of the [data-quiz-products] element: handle, metafields,
\* tags, available
Catalogue ==
    << [handle |-> "a", tags |-> { "strength", "core" }, available |-> FALSE,
        metafields |-> [quiz_score_strength |-> 2, quiz_experience_level |-> "all",
                        quiz_space_required |-> "large"]],
       [handle |-> "b", tags |-> {}, available |-> FALSE,
        metafields |-> [quiz_score_strength |-> -1, quiz_experience_level |-> "",
                        quiz_space_required |-> "medium"]],
       [handle |-> "c", tags |-> { "core" }, available |-> FALSE,
        metafields |-> [quiz_score_strength |-> 0,
                        quiz_experience_level |-> "beginner",
                        quiz_space_required |-> "large"]],
       [handle |-> "d", tags |-> { "legs" }, available |-> TRUE,
        metafields |-> [quiz_score_strength |-> 0,
                        quiz_experience_level |-> "advanced",
                        quiz_space_required |-> "small"]] >>

\* this.answers[key], undefined (FALSE here) when the key was never written
Answer(ans, key) == IF key \in DOMAIN ans THEN ans[key] ELSE FALSE

\* product.metafields[name], 0 standing for a metafield that is not there
Metafield(product, name) ==
    IF name \in DOMAIN product.metafields THEN product.metafields[name] ELSE 0

RECURSIVE FocusScore(_, _)
FocusScore(product, focus) ==
    IF Len(focus) = 0 THEN 0
    ELSE (IF Head(focus) \in product.tags THEN 4 ELSE 0)
         + FocusScore(product, Tail(focus))

\* The score the map callback of getRecommendations gives a product
score(product, ans) ==
    LET goal       == Answer(ans, "goal")
        expLevel   == Answer(ans, "experience")
        space      == Answer(ans, "space")
        goalScore  == Metafield(product, "quiz_score_" \o goal)
        productExp == product.metafields.quiz_experience_level
        productSpace == product.metafields.quiz_space_required
        goalPart ==
            IF "goal" \in DOMAIN ans
            THEN (IF goalScore # 0 THEN goalScore * 3 ELSE 0)
                 + (IF goal \in product.tags THEN 10 ELSE 0)
            ELSE 0
        expPart ==
            IF "experience" \in DOMAIN ans /\ expLevel # 0
            THEN IF productExp = "all" THEN 5
                 ELSE IF productExp = "beginner" /\ expLevel <= 4 THEN 8
                 ELSE IF productExp = "intermediate" /\ expLevel >= 4 /\ expLevel <= 7
                 THEN 8
                 ELSE IF productExp = "advanced" /\ expLevel >= 7 THEN 8
                 ELSE 0
            ELSE 0
        spacePart ==
            IF "space" \in DOMAIN ans
            THEN IF productSpace = space THEN 6
                 ELSE IF productSpace = "small" THEN 3 ELSE 0
            ELSE 0
        focusPart ==
            IF "focus" \in DOMAIN ans THEN FocusScore(product, ans.focus) ELSE 0
    IN  goalPart + expPart + spacePart + focusPart
        + (IF product.available THEN 2 ELSE 0)

\* scored.filter(p => p.score > 0)
RECURSIVE FilterPositive(_)
FilterPositive(scored) ==
    IF Len(scored) = 0 THEN << >>
    ELSE (IF Head(scored).score > 0 THEN << Head(scored) >> ELSE << >>)
         \o FilterPositive(Tail(scored))

\* Array.prototype.sort with (a, b) => b.score - a.score: stable, so an entry
\* goes behind every entry whose score is not lower and that was ahead of it
InsertByScore(sorted, x) ==
    LET ahead == Cardinality({ i \in 1..Len(sorted) : sorted[i].score >= x.score })
    IN  SubSeq(sorted, 1, ahead) \o << x >> \o SubSeq(sorted, ahead + 1, Len(sorted))

RECURSIVE SortByScore(_)
SortByScore(scored) ==
    IF Len(scored) = 0 THEN << >>
    ELSE InsertByScore(SortByScore(SubSeq(scored, 1, Len(scored) - 1)),
                       scored[Len(scored)])

\* getRecommendations(): the handles of the products it returns, in order
getRecommendations(prods, ans, count) ==
    LET scored == [i \in 1..Len(prods) |->
                     [handle |-> prods[i].handle, score |-> score(prods[i], ans)]]
        sorted == SortByScore(FilterPositive(scored))
        top    == SubSeq(sorted, 1, Min(count, Len(sorted)))
    IN  [i \in 1..Len(top) |-> top[i].handle]

\* showResults()
QuizShowResults ==
    /\ resultsShown' = TRUE
    /\ navHidden' = TRUE
    /\ recommendations' = getRecommendations(products, answers, resultsCount)
    /\ UNCHANGED currentStep

\* nextStep()
QuizNextStep ==
    IF currentStep >= totalSteps
    THEN IF QuizStepTypes[totalSteps] = "email"
         THEN UNCHANGED << currentStep, resultsShown, navHidden, recommendations >>
         ELSE QuizShowResults
    ELSE /\ currentStep' = currentStep + 1
         /\ navHidden' = FALSE
         /\ UNCHANGED << resultsShown, recommendations >>


\* handleSingleChoice(option): click on an option of the visible step
QuizHandleSingleChoice(value) ==
    LET pending == timers   \* no clearTimeout: earlier timers stay pending
    IN  /\ IsQuiz /\ TaskMayRun
        /\ ~resultsShown /\ QuizStepTypes[currentStep] = "single"
        /\ Cardinality(pending) < MaxTimers
        /\ answers' = [k \in DOMAIN answers \cup { QuizStepKeys[currentStep] } |->
                         IF k = QuizStepKeys[currentStep] THEN value ELSE answers[k]]
        /\ timers' = pending \cup
              { [id |-> FreshTimer(pending, {}), kind |-> "quizAdvance", q |-> ""] }
        /\ ev' = Event("handleSingleChoice", value)
        /\ UNCHANGED << widget, panelOpen, panel, loading, requests, currentStep,
                        resultsShown, navHidden, quizData, recommendations,
                        searchVars, facetsVars, moreVars >>

\* The auto-advance timer fires: nextStep()
QuizTimerFires(t) ==
    /\ IsQuiz /\ TaskMayRun
    /\ t \in timers
    /\ timers' = timers \ {t}
    /\ QuizNextStep
    /\ ev' = Event("nextStep", "")
    /\ UNCHANGED << widget, panelOpen, panel, loading, requests, answers,
                    quizData, searchVars, facetsVars, moreVars >>

\* prevStep(): click on the Back button of the navigation
QuizPrevStep ==
    /\ IsQuiz /\ TaskMayRun
    /\ ~navHidden
    /\ IF currentStep <= 1
       THEN UNCHANGED << currentStep, navHidden >>
       ELSE /\ currentStep' = currentStep - 1
            /\ navHidden' = (currentStep' = 1)
    /\ ev' = Event("prevStep", "")
    /\ UNCHANGED << widget, panelOpen, panel, loading, timers, requests, answers,
                    resultsShown, quizData, recommendations, searchVars,
                    facetsVars, moreVars >>

\* restart(): click on the restart button of the results step
QuizRestart ==
    /\ IsQuiz /\ TaskMayRun
    /\ resultsShown
    /\ currentStep' = 1
    /\ answers' = << >>
    /\ resultsShown' = FALSE
    /\ navHidden' = TRUE
    /\ ev' = Event("restart", "")
    /\ UNCHANGED << widget, panelOpen, panel, loading, timers, requests,
                    quizData, recommendations, searchVars, facetsVars, moreVars >>

QuizNext ==
    \/ \E value \in QuizOptions[QuizStepKeys[currentStep]] :
          QuizHandleSingleChoice(value)
    \/ \E t \in timers : QuizTimerFires(t)
    \/ QuizPrevStep
    \/ QuizRestart

-----------------------------------------------------------------------------
(* getRecommendations of the quiz, applied to answers of every question type *)

IsScoring == widget = "scoring"

\* The orders in which the page can list the catalogue
ProductLists ==
    { [i \in 1..Len(Catalogue) |-> Catalogue[f[i]]] :
        f \in { g \in [1..Len(Catalogue) -> 1..Len(Catalogue)] :
                  \A i, j \in 1..Len(Catalogue) : g[i] = g[j] => i = j } }

\* Values of data-results-count
ResultsCounts == { 2, 3 }

\* Answers a step can write: single choice (goal, space) and slider (experience)
ScoreAnswers == [goal |-> { "strength" }, space |-> { "large" }, experience |-> { 3, 8 }]

\* data-value of the options of the multiple-choice step (focus)
FocusTags == { "core", "legs" }

\* this.answers[key] = value, for a key not answered yet
ScoreAnswer(key, value) ==
    /\ IsScoring
    /\ key \notin DOMAIN answers
    /\ answers' = [k \in DOMAIN answers \cup {key} |->
                     IF k = key THEN value ELSE answers[k]]
    /\ ev' = Event("answer", key)
    /\ UNCHANGED << widget, panelOpen, panel, loading, timers, requests, currentStep,
                    resultsShown, navHidden, quizData, recommendations, searchVars,
                    facetsVars, moreVars >>

\* this.answers.focus lists one more selected option
ScoreSelectFocus(tag) ==
    LET focus == IF "focus" \in DOMAIN answers THEN answers.focus ELSE << >>
    IN  /\ IsScoring
        /\ \A i \in 1..Len(focus) : focus[i] # tag
        /\ answers' = [k \in DOMAIN answers \cup { "focus" } |->
                         IF k = "focus" THEN Append(focus, tag) ELSE answers[k]]
        /\ ev' = Event("selectFocus", tag)
        /\ UNCHANGED << widget, panelOpen, panel, loading, timers, requests,
                        currentStep, resultsShown, navHidden, quizData,
                        recommendations, searchVars, facetsVars, moreVars >>

\* showResults() for the answers given so far
ScoreShowResults ==
    /\ IsScoring
    /\ QuizShowResults
    /\ ev' = Event("showResults", "")
    /\ UNCHANGED << widget, panelOpen, panel, loading, timers, requests, answers,
                    quizData, searchVars, facetsVars, moreVars >>

ScoreNext ==
    \/ \E key \in DOMAIN ScoreAnswers : \E value \in ScoreAnswers[key] :
          ScoreAnswer(key, value)
    \/ \E tag \in FocusTags : ScoreSelectFocus(tag)
    \/ ScoreShowResults

-----------------------------------------------------------------------------
(* A multiple-choice step of the quiz (handleMultipleChoice) *)

IsMulti == widget = "multiple"

\* data-value of the [data-quiz-option-multi] options of the step, in
\* document order
MultiOptions == << "core", "legs", "arms", "back" >>

\* data-max-selections and data-min-selections of the step
maxSelections == 2
minSelections == 1

\* step.querySelectorAll('[data-quiz-option-multi].is-selected'): the selected
\* options in document order
selectedOptions(sel) ==
    SelectSeq(MultiOptions, LAMBDA o : \E i \in 1..Len(sel) : sel[i] = o)

\* handleMultipleChoice(option): click on an option of the step
MultiHandleMultipleChoice(option) ==
    LET isSelected == \E i \in 1..Len(selected) : selected[i] = option
        nodes      == selectedOptions(selected)
        kept       == IF Len(nodes) >= maxSelections
                      THEN SelectSeq(selected, LAMBDA o : o # nodes[1])
                      ELSE selected
    IN  /\ IsMulti /\ TaskMayRun
        /\ selected' = IF isSelected
                       THEN SelectSeq(selected, LAMBDA o : o # option)
                       ELSE Append(kept, option)
        /\ continueDisabled' = (Len(selected') < minSelections)
        /\ ev' = Event("handleMultipleChoice", option)
        /\ UNCHANGED << widget, panelOpen, panel, loading, timers, requests,
                        searchVars, quizVars, facetsVars, quoteVars, uncaught,
                        dataLayer, themeVars, pagerVars, cartVars, peerItems >>

MultiNext ==
    \E i \in 1..Len(MultiOptions) : MultiHandleMultipleChoice(MultiOptions[i])

-----------------------------------------------------------------------------
(* Facets: collection filtering (src/assets/quote-system.js, class Facets) *)

IsFacets == widget = "facets"

\* The collection URL the page was served for, and the URLs the filter form
\* and the sort select can produce
StartUrl == "/collections/all"
SortUrls == { "/collections/all?sort_by=price" }
FilterUrls == { "/collections/all?filter.v=1", "/collections/all?filter.v=2" }
Urls == SortUrls \cup FilterUrls


\* loadPage(url, pushState) up to its first await
FacetsLoadPage(url, pushState) ==
    LET prior == requests   \* no abort: earlier fetches stay in flight
    IN  /\ Cardinality(prior) < MaxRequests
        /\ loading' = TRUE
        /\ requests' = prior \cup
              { [id |-> FreshRequest(prior), owner |-> "facets", q |-> url,
                 aborted |-> FALSE, push |-> pushState] }

\* clearTimeout(priceTimeout) in the input listener
FacetsClearPrice(ts, handle) == ClearTimeout(ts, handle)

\* input on a price field of the form
FacetsPriceInput ==
    LET cleared == FacetsClearPrice(timers, priceTimeout)
        handle  == FreshTimer(cleared, {})
    IN  /\ IsFacets /\ TaskMayRun /\ listenersLive
        /\ Cardinality(cleared) < MaxTimers
        /\ timers' = cleared \cup { [id |-> handle, kind |-> "facetsPrice", q |-> ""] }
        /\ priceTimeout' = handle
        /\ ev' = Event("priceInput", "")
        /\ UNCHANGED << widget, panelOpen, panel, loading, requests, location,
                        listenersLive, searchVars, quizVars, moreVars >>

\* applyFilters(): loadPage(url) for the URL built from the form, closeDrawer()
FacetsApplyFilters(url) ==
    /\ FacetsLoadPage(url, TRUE)
    /\ panelOpen' = FALSE

\* The price timer fires; wide: window.innerWidth >= 768
FacetsTimerFires(t, wide, url) ==
    /\ IsFacets /\ TaskMayRun
    /\ t \in timers
    /\ timers' = timers \ {t}
    /\ IF wide
       THEN FacetsApplyFilters(url)
       ELSE UNCHANGED << panelOpen, loading, requests >>
    /\ ev' = Event("priceTimer", IF wide THEN url ELSE "")
    /\ UNCHANGED << widget, panel, facetsVars, searchVars, quizVars, moreVars >>

\* submit of the form, or change of a checkbox on a wide window
FacetsSubmit(url) ==
    /\ IsFacets /\ TaskMayRun /\ listenersLive
    /\ FacetsApplyFilters(url)
    /\ ev' = Event("applyFilters", url)
    /\ UNCHANGED << widget, panel, timers, facetsVars, searchVars, quizVars, moreVars >>

\* handleSort(sortValue): change of the sort select
FacetsHandleSort(url) ==
    /\ IsFacets /\ TaskMayRun /\ listenersLive
    /\ FacetsLoadPage(url, TRUE)
    /\ ev' = Event("handleSort", url)
    /\ UNCHANGED << widget, panelOpen, panel, timers, facetsVars, searchVars,
                    quizVars, moreVars >>

\* popstate: the browser went to the history entry url; loadPage(href, false)
FacetsPopstate(url) ==
    /\ IsFacets /\ TaskMayRun
    /\ location' = url
    /\ FacetsLoadPage(url, FALSE)
    /\ ev' = Event("popstate", url)
    /\ UNCHANGED << widget, panelOpen, panel, timers, priceTimeout, listenersLive,
                    searchVars, quizVars, moreVars >>

\* toggleDrawer()
FacetsToggleDrawer ==
    /\ IsFacets /\ TaskMayRun
    /\ panelOpen' = ~panelOpen
    /\ ev' = Event("toggleDrawer", "")
    /\ UNCHANGED << widget, panel, loading, timers, requests, facetsVars,
                    searchVars, quizVars, moreVars >>

\* fetch(url) or response.text() rejects: catch, then finally
FacetsFetchFails(r) ==
    /\ IsFacets /\ TaskMayRun
    /\ r \in requests
    /\ requests' = requests \ {r}
    /\ loading' = FALSE
    /\ ev' = Event("failed", "network")
    /\ UNCHANGED << widget, panelOpen, panel, timers, facetsVars, searchVars,
                    quizVars, moreVars >>

\* The response (of any status) was read as text and parsed; hasPage: the
\* document holds [data-products-container] and [data-facets]
FacetsFetchResolves(r, status, hasPage) ==
    /\ IsFacets /\ TaskMayRun
    /\ r \in requests
    /\ requests' = requests \ {r}
    /\ panel' = IF hasPage THEN Content(r.q) ELSE panel
    /\ listenersLive' = IF hasPage THEN FALSE ELSE listenersLive
    /\ location' = IF r.push THEN r.q ELSE location
    /\ loading' = FALSE
    /\ ev' = Event("loaded", status)
    /\ UNCHANGED << widget, panelOpen, timers, priceTimeout, searchVars, quizVars, moreVars >>

Statuses == { "ok", "status" }

FacetsNext ==
    \/ FacetsPriceInput
    \/ \E t \in timers, wide \in BOOLEAN, url \in FilterUrls : FacetsTimerFires(t, wide, url)
    \/ \E url \in FilterUrls : FacetsSubmit(url)
    \/ \E url \in SortUrls : FacetsHandleSort(url)
    \/ \E url \in Urls \cup {StartUrl} : FacetsPopstate(url)
    \/ FacetsToggleDrawer
    \/ \E r \in requests : FacetsFetchFails(r)
    \/ \E r \in requests, status \in Statuses, hasPage \in BOOLEAN :
          FacetsFetchResolves(r, status, hasPage)

-----------------------------------------------------------------------------
(* Quick view modal (src/assets/quick-view.js) *)

IsQuickView == widget = "quickview"

\* Product handles of the [data-quick-view] triggers of the page
Handles == { "mat", "rack" }

\* open(handle): click on a trigger of the page behind the closed modal
QuickViewOpen(handle) ==
    /\ IsQuickView /\ TaskMayRun /\ ~panelOpen
    /\ Cardinality(requests) < MaxRequests
    /\ panelOpen' = TRUE
    /\ panel' = LoadingPanel
    /\ requests' = requests \cup { NewRequest(requests, "quickview", handle) }
    /\ ev' = Event("open", handle)
    /\ UNCHANGED << widget, loading, timers, searchVars, otherVars >>

\* close(): close trigger, or Escape while open
QuickViewClose ==
    /\ IsQuickView /\ TaskMayRun /\ panelOpen
    /\ panelOpen' = FALSE
    /\ ev' = Event("close", "")
    /\ UNCHANGED << widget, panel, loading, timers, requests, searchVars, otherVars >>

\* fetch or response.text() rejects: the catch block of open
QuickViewFetchFails(r) ==
    /\ IsQuickView /\ TaskMayRun
    /\ r \in requests
    /\ requests' = requests \ {r}
    /\ panel' = [ErrorPanel EXCEPT !.q = r.q]
    /\ ev' = Event("failed", "network")
    /\ UNCHANGED << widget, panelOpen, loading, timers, searchVars, otherVars >>

\* The response (of any status) was read as text: the fragment is shown
QuickViewFetchResolves(r, status) ==
    /\ IsQuickView /\ TaskMayRun
    /\ r \in requests
    /\ requests' = requests \ {r}
    /\ panel' = Content(r.q)
    /\ ev' = Event("loaded", status)
    /\ UNCHANGED << widget, panelOpen, loading, timers, searchVars, otherVars >>

QuickViewNext ==
    \/ \E handle \in Handles : QuickViewOpen(handle)
    \/ QuickViewClose
    \/ \E r \in requests : QuickViewFetchFails(r)
    \/ \E r \in requests, status \in Statuses : QuickViewFetchResolves(r, status)

-----------------------------------------------------------------------------
(* Quote system (src/assets/quote-system.js, class QuoteSystem) *)

IsQuote == widget = "quote"

\* The value of a property that is not there
Undefined == "<undefined>"

\* object[key]
Get(object, key) == IF key \in DOMAIN object THEN object[key] ELSE Undefined

\* A JavaScript value as far as the quote system tells values apart: an array
\* of elements, or an object that is no array
Array(elems) == [type |-> "array", elems |-> elems]
PlainObject == [type |-> "object", elems |-> << >>]

\* The element null of an array
Null == [null |-> TRUE]
IsNull(e) == "null" \in DOMAIN e

\* JSON.stringify of an element: properties whose value is undefined are left out
StringifyItem(item) ==
    [k \in { n \in DOMAIN item : item[n] # Undefined } |-> item[k]]

\* JSON.stringify(this.items), as the text localStorage keeps
Stringify(value) ==
    [json |-> value.type,
     elems |-> [i \in 1..Len(value.elems) |-> StringifyItem(value.elems[i])]]

\* What localStorage['quoteItems'] can hold when the page loads: nothing, text
\* that is no JSON, the JSON texts null and {"a":1}, and JSON arrays: empty,
\* of one item saved earlier, and [null]
StoredItem == [id |-> "0", productId |-> "p1", variantId |-> "v1"]
StorageContents ==
    { [json |-> "absent", elems |-> << >>], [json |-> "invalid", elems |-> << >>],
      [json |-> "null", elems |-> << >>], [json |-> "object", elems |-> << >>],
      [json |-> "array", elems |-> << >>], [json |-> "array", elems |-> << StoredItem >>],
      [json |-> "array", elems |-> << Null >>] }

\* loadItems(): JSON.parse(localStorage.getItem('quoteItems')) || [], and []
\* when JSON.parse throws
loadItems(stored) ==
    CASE stored.json = "array"  -> Array(stored.elems)
      [] stored.json = "object" -> PlainObject
      [] OTHER                  -> Array(<< >>)

\* dataset of the [data-quote-button] elements of the page; the second product
\* has no data-variant-id
QuoteButtons ==
    { [productId |-> "p1", variantId |-> "v1"], [productId |-> "p1", variantId |-> "v2"],
      [productId |-> "p2", variantId |-> Undefined] }

\* this.items.find(i => i.productId === item.productId && i.variantId === item.variantId)
\* finds an element
Exists(elems, item) ==
    \E i \in 1..Len(elems) :
        /\ Get(elems[i], "productId") = item.productId
        /\ Get(elems[i], "variantId") = item.variantId

\* The call this.items.find(...) of addItem throws a TypeError: this.items has
\* no method find, or the callback reads a property of null
FindThrows(value) ==
    \/ value.type # "array"
    \/ \E i \in 1..Len(value.elems) : IsNull(value.elems[i])

\* saveItems() in addItem
QuoteNoSave(value) == storage
QuoteSaveItems(value) == Stringify(value)

\* Click on a quote button when Date.now() shows now (the wall clock may repeat
\* a value or step back): addItem(button), then open()
QuoteAddItem(button, now) ==
    LET item == [id |-> ToString(now), productId |-> button.productId,
                 variantId |-> button.variantId]
    IN  /\ IsQuote /\ TaskMayRun
        /\ ev' = Event("addItem", button.productId)
        /\ IF FindThrows(items)
           THEN /\ uncaught' = "TypeError"
                /\ UNCHANGED << items, storage, panelOpen >>
           ELSE /\ IF Exists(items.elems, item)
                   THEN UNCHANGED << items, storage >>
                   ELSE /\ items' = Array(Append(items.elems, item))
                        /\ storage' = QuoteSaveItems(items')
                /\ panelOpen' = TRUE
                /\ UNCHANGED uncaught
        /\ UNCHANGED << widget, panel, loading, timers, requests, dataLayer,
                        pageVars, searchVars, quizVars, facetsVars >>

\* Click on the remove button of a listed item: removeItem(itemId)
QuoteRemoveItem(itemId) ==
    /\ IsQuote /\ TaskMayRun /\ panelOpen
    /\ items.type = "array"
    /\ \E i \in 1..Len(items.elems) : Get(items.elems[i], "id") = itemId
    /\ items' = Array(SelectSeq(items.elems, LAMBDA e : Get(e, "id") # itemId))
    /\ storage' = Stringify(items')
    /\ ev' = Event("removeItem", itemId)
    /\ UNCHANGED << widget, panelOpen, panel, loading, timers, requests, uncaught,
                    dataLayer, pageVars, searchVars, quizVars, facetsVars >>

\* close(): close trigger, or Escape while open
QuoteClose ==
    /\ IsQuote /\ TaskMayRun /\ panelOpen
    /\ panelOpen' = FALSE
    /\ ev' = Event("close", "")
    /\ UNCHANGED << widget, panel, loading, timers, requests, searchVars, otherVars >>

QuoteNext ==
    \/ \E button \in QuoteButtons, now \in 1..MaxClock : QuoteAddItem(button, now)
    \/ \E itemId \in { ToString(now) : now \in 0..MaxClock } : QuoteRemoveItem(itemId)
    \/ QuoteClose

\* A second page of the shop is open in another tab: its QuoteSystem loaded
\* this.items when it was constructed and shares localStorage with this page.
\* addItem(button) on that page (an addItem that throws changes nothing)
QuotePeerAddItem(button, now) ==
    LET item == [id |-> ToString(now), productId |-> button.productId,
                 variantId |-> button.variantId]
    IN  /\ IsQuote /\ TaskMayRun
        /\ ~FindThrows(peerItems)
        /\ ev' = Event("peerAddItem", button.productId)
        /\ IF Exists(peerItems.elems, item)
           THEN UNCHANGED << peerItems, storage >>
           ELSE /\ peerItems' = Array(Append(peerItems.elems, item))
                /\ storage' = Stringify(peerItems')
        /\ UNCHANGED << widget, panelOpen, panel, loading, timers, requests, items,
                        uncaught, dataLayer, multiVars, themeVars, pagerVars,
                        cartVars, searchVars, quizVars, facetsVars >>

\* removeItem(itemId) on that page
QuotePeerRemoveItem(itemId) ==
    /\ IsQuote /\ TaskMayRun
    /\ ~FindThrows(peerItems)
    /\ \E i \in 1..Len(peerItems.elems) : Get(peerItems.elems[i], "id") = itemId
    /\ peerItems' = Array(SelectSeq(peerItems.elems, LAMBDA e : Get(e, "id") # itemId))
    /\ storage' = Stringify(peerItems')
    /\ ev' = Event("peerRemoveItem", itemId)
    /\ UNCHANGED << widget, panelOpen, panel, loading, timers, requests, items,
                    uncaught, dataLayer, multiVars, themeVars, pagerVars, cartVars,
                    searchVars, quizVars, facetsVars >>

\* Two pages at work
QuoteSharedNext ==
    \/ QuoteNext
    \/ \E button \in QuoteButtons, now \in 1..MaxClock : QuotePeerAddItem(button, now)
    \/ \E itemId \in { ToString(now) : now \in 0..MaxClock } : QuotePeerRemoveItem(itemId)

-----------------------------------------------------------------------------
(* Analytics: begin-checkout tracking (src/assets/analytics.js, class Analytics) *)

IsAnalytics == widget = "analytics"

\* Bodies /cart.js can answer with that parse as JSON: a cart, an empty cart,
\* and the error object of a non-2xx answer, which has no items
CartBodies ==
    { [items |-> << "mat" >>, total_price |-> 1000],
      [items |-> << >>, total_price |-> 0],
      [status |-> 429] }

\* Click on a checkout button: trackBeginCheckout() issues fetch('/cart.js')
AnalyticsTrackBeginCheckout ==
    /\ IsAnalytics /\ TaskMayRun
    /\ Cardinality(requests) < MaxRequests
    /\ Len(dataLayer) + Cardinality(requests) < MaxEvents
    /\ requests' = requests \cup { NewRequest(requests, "analytics", "/cart.js") }
    /\ ev' = Event("trackBeginCheckout", "")
    /\ UNCHANGED << widget, panelOpen, panel, loading, timers, searchVars, otherVars >>

\* fetch rejects, or r.json() rejects: the chain has no rejection handler
AnalyticsFetchFails(r, why) ==
    /\ IsAnalytics /\ TaskMayRun
    /\ r \in requests
    /\ requests' = requests \ {r}
    /\ uncaught' = "unhandledrejection"
    /\ ev' = Event("failed", why)
    /\ UNCHANGED << widget, panelOpen, panel, loading, timers, dataLayer, searchVars,
                    quizVars, facetsVars, quoteVars, pageVars >>

\* The response (of any status) parsed as JSON: the second then callback
AnalyticsFetchResolves(r, cart) ==
    /\ IsAnalytics /\ TaskMayRun
    /\ r \in requests
    /\ requests' = requests \ {r}
    /\ IF "items" \in DOMAIN cart
       THEN /\ dataLayer' = Append(dataLayer,
                                   [event |-> "begin_checkout",
                                    value |-> cart.total_price \div 100,
                                    items |-> cart.items])
            /\ ev' = Event("loaded", "ok")
            /\ UNCHANGED uncaught
       ELSE /\ uncaught' = "unhandledrejection"
            /\ ev' = Event("failed", "status")
            /\ UNCHANGED dataLayer
    /\ UNCHANGED << widget, panelOpen, panel, loading, timers, searchVars,
                    quizVars, facetsVars, quoteVars, pageVars >>

AnalyticsNext ==
    \/ AnalyticsTrackBeginCheckout
    \/ \E r \in requests, why \in { "network", "parse" } : AnalyticsFetchFails(r, why)
    \/ \E r \in requests, cart \in CartBodies : AnalyticsFetchResolves(r, cart)

-----------------------------------------------------------------------------
(* Theme toggle (src/assets/theme-toggle.js; class ThemeToggle of global.js) *)

IsTheme == widget = "theme"

\* Strings a caller of setTheme or another script of the origin can supply;
\* "" stands for null as well (both are falsy)
ThemeValues == { "dark", "light", "blue", "" }

\* The scripts whose click listener a [data-theme-toggle] button carries
HandlerOrders == { "alone", "themeFirst", "globalFirst" }

\* getInitialTheme()
getInitialTheme(saved, matches) ==
    IF saved = "dark" \/ saved = "light" THEN saved
    ELSE IF matches THEN "dark" ELSE "light"

\* What the handlers of one event read and write; timer: the event has
\* started the timer that removes theme-transitioning
ThemeState ==
    [cur |-> currentTheme, stor |-> themeStorage, legacy |-> legacyTheme,
     dark |-> darkClass, light |-> lightClass, moving |-> transitioning,
     timer |-> FALSE]

\* applyTheme(theme, animate): the classes of the root element
applyTheme(st, theme, animate) ==
    [st EXCEPT !.dark = (theme = "dark"), !.light = (theme # "dark"),
               !.moving = (animate \/ st.moving), !.timer = (animate \/ st.timer)]

\* setTheme(theme)
setTheme(st, theme) ==
    IF theme # "dark" /\ theme # "light"
    THEN st
    ELSE applyTheme([st EXCEPT !.cur = theme, !.stor = theme], theme, TRUE)

\* toggle() of theme-toggle.js
toggle(st) == setTheme(st, IF st.cur = "dark" THEN "light" ELSE "dark")

\* toggle() of global.js: classList.toggle('dark-mode'), then the 'theme' key
GlobalToggle(st) ==
    [st EXCEPT !.dark = ~st.dark, !.legacy = IF ~st.dark THEN "dark" ELSE "light"]

\* The handlers of the event op leave the state st
ThemeCommit(st, op, arg) ==
    /\ currentTheme' = st.cur
    /\ themeStorage' = st.stor
    /\ legacyTheme' = st.legacy
    /\ darkClass' = st.dark
    /\ lightClass' = st.light
    /\ transitioning' = st.moving
    /\ timers' = IF st.timer
                 THEN timers \cup { [id |-> FreshTimer(timers, {}),
                                     kind |-> "themeTransition", q |-> ""] }
                 ELSE timers
    /\ ev' = Event(op, arg)
    /\ UNCHANGED << widget, panelOpen, panel, loading, requests, handlerOrder,
                    searchVars, quizVars, facetsVars, quoteVars, uncaught,
                    dataLayer, multiVars, pagerVars, cartVars, peerItems >>

\* Click on a [data-theme-toggle] button: its listeners run in the order
\* they were registered
ThemeClick ==
    /\ IsTheme /\ TaskMayRun
    /\ Cardinality(timers) < MaxTimers
    /\ UNCHANGED prefersDark
    /\ ThemeCommit(CASE handlerOrder = "alone" -> toggle(ThemeState)
                      [] handlerOrder = "themeFirst" -> GlobalToggle(toggle(ThemeState))
                      [] handlerOrder = "globalFirst" -> toggle(GlobalToggle(ThemeState)),
                   "click", "")

\* window.themeToggle.setTheme(theme), called by another script
ThemeSetTheme(theme) ==
    /\ IsTheme /\ TaskMayRun
    /\ Cardinality(timers) < MaxTimers
    /\ UNCHANGED prefersDark
    /\ ThemeCommit(setTheme(ThemeState, theme), "setTheme", theme)

\* change event of the (prefers-color-scheme: dark) media query
ThemeSystemChange ==
    LET matches == ~prefersDark
        theme   == IF matches THEN "dark" ELSE "light"
    IN  /\ IsTheme /\ TaskMayRun
        /\ Cardinality(timers) < MaxTimers
        /\ prefersDark' = matches
        /\ IF themeStorage = ""
           THEN ThemeCommit(applyTheme([ThemeState EXCEPT !.cur = theme], theme, TRUE),
                            "system", theme)
           ELSE ThemeCommit(ThemeState, "system", theme)

\* storage event: another page of the origin has set the key to newValue
\* ("": removed it)
ThemeStorageEvent(newValue) ==
    LET st == [ThemeState EXCEPT !.stor = newValue]
    IN  /\ IsTheme /\ TaskMayRun
        /\ Cardinality(timers) < MaxTimers
        /\ newValue # themeStorage
        /\ UNCHANGED prefersDark
        /\ IF newValue # ""
           THEN ThemeCommit(applyTheme([st EXCEPT !.cur = newValue], newValue, TRUE),
                            "storage", newValue)
           ELSE ThemeCommit(st, "storage", newValue)

\* The timer of applyTheme fires: theme-transitioning is removed
ThemeTimerFires(t) ==
    /\ IsTheme /\ TaskMayRun
    /\ t \in timers
    /\ timers' = timers \ {t}
    /\ transitioning' = FALSE
    /\ ev' = Event("transitionEnd", "")
    /\ UNCHANGED << widget, panelOpen, panel, loading, requests, currentTheme,
                    themeStorage, legacyTheme, darkClass, lightClass, prefersDark,
                    handlerOrder, searchVars, quizVars, facetsVars, quoteVars,
                    uncaught, dataLayer, multiVars, pagerVars, cartVars, peerItems >>

ThemeNext ==
    \/ ThemeClick
    \/ \E theme \in ThemeValues : ThemeSetTheme(theme)
    \/ ThemeSystemChange
    \/ \E newValue \in ThemeValues : ThemeStorageEvent(newValue)
    \/ \E t \in timers : ThemeTimerFires(t)

-----------------------------------------------------------------------------
(* Collection pagination (src/unnamed/part_000, class CollectionPagination) *)

IsPager == widget = "pager"

\* The pagination control of the collection template: a [data-load-more]
\* button, a [data-infinite-scroll] sentinel, or both
Controls == { "button", "sentinel", "both" }
HasButton == control \in { "button", "both" }
HasSentinel == control \in { "sentinel", "both" }

\* Ways loadMore is triggered: click on the button, intersection of the sentinel
Triggers == { "click", "intersect" }

\* loadMore() up to its first await.  A disabled or hidden button receives no
\* click; a hidden sentinel does not intersect; the observer callback tests
\* isLoading before it calls loadMore.
PagerLoadMore(trigger) ==
    /\ IsPager /\ TaskMayRun
    /\ lastPage > 1 /\ ~controlHidden
    /\ IF trigger = "click" THEN HasButton /\ ~isLoading ELSE HasSentinel
    /\ ev' = Event("loadMore", trigger)
    /\ IF isLoading
       THEN UNCHANGED << isLoading, controlHidden, requests >>
       ELSE IF nextPage = 0
       THEN /\ controlHidden' = TRUE
            /\ UNCHANGED << isLoading, requests >>
       ELSE /\ isLoading' = TRUE
            /\ requests' = requests \cup { NewRequest(requests, "pager", nextPage) }
            /\ UNCHANGED controlHidden
    /\ UNCHANGED << widget, panelOpen, panel, loading, timers, currentPage, nextPage,
                    appended, loadsOk, pagerMarkup, searchVars, quizVars, facetsVars,
                    quoteVars, uncaught, dataLayer, multiVars, themeVars, cartVars,
                    peerItems >>

\* The response was read and parsed: the rest of the try block, then finally.
\* A 2xx answer is page r.q of the collection, which carries the control of
\* the template while a page follows it; any other answer is an error page
\* with no product card and no control.
PagerFetchResolves(r, status) ==
    LET served      == status = "ok"
        newLoadMore == served /\ HasButton /\ r.q < lastPage
    IN  /\ IsPager /\ TaskMayRun
        /\ r \in requests
        /\ requests' = requests \ {r}
        /\ appended' = IF served THEN Append(appended, r.q) ELSE appended
        /\ nextPage' = IF newLoadMore THEN r.q + 1 ELSE nextPage
        /\ controlHidden' = (controlHidden \/ ~newLoadMore)
        /\ currentPage' = currentPage + 1
        /\ loadsOk' = IF served THEN loadsOk + 1 ELSE loadsOk
        /\ isLoading' = FALSE
        /\ ev' = Event("loaded", status)
        /\ UNCHANGED << widget, panelOpen, panel, loading, timers, pagerMarkup,
                        searchVars, quizVars, facetsVars, quoteVars, uncaught,
                        dataLayer, multiVars, themeVars, cartVars, peerItems >>

\* fetch or response.text() rejects: catch, then finally
PagerFetchFails(r) ==
    /\ IsPager /\ TaskMayRun
    /\ r \in requests
    /\ requests' = requests \ {r}
    /\ isLoading' = FALSE
    /\ ev' = Event("failed", "network")
    /\ UNCHANGED << widget, panelOpen, panel, loading, timers, currentPage, nextPage,
                    controlHidden, appended, loadsOk, pagerMarkup, searchVars,
                    quizVars, facetsVars, quoteVars, uncaught, dataLayer, multiVars,
                    themeVars, cartVars, peerItems >>

\* Pagination while every fetch is answered with a 2xx status
PagerOkNext ==
    \/ \E trigger \in Triggers : PagerLoadMore(trigger)
    \/ \E r \in requests : PagerFetchResolves(r, "ok")

PagerNext ==
    \/ PagerOkNext
    \/ \E r \in requests : PagerFetchResolves(r, "status")
    \/ \E r \in requests : PagerFetchFails(r)

-----------------------------------------------------------------------------
(* Cart drawer (src/assets/cart-drawer.js, class CartDrawer), with one line in
   the cart.  Every request is answered: the server handles the requests in
   any order, and the answers arrive in any order. *)

IsCart == widget = "cart"

\* A fetch of the drawer: POST /cart/change.js with quantity qty ("change"),
\* the cart-drawer section ("refresh"), /cart.js ("count").  Once the server
\* has answered, qty is the quantity of the line the answer shows.
CartRequest(rs, kind, qty) ==
    [id |-> FreshRequest(rs), owner |-> "cart", q |-> kind, aborted |-> FALSE,
     qty |-> qty, answered |-> FALSE]

\* updateItem(key, quantity) up to its first await
CartUpdateItem(quantity) ==
    /\ Cardinality(requests) < MaxRequests
    /\ requests' = requests \cup { CartRequest(requests, "change", quantity) }

\* handleQuantityChange(button, change): click on the minus or plus button of
\* the line the drawer shows
CartHandleQuantityChange(change) ==
    LET newQuantity == Max(0, shownQty + change)
    IN  /\ IsCart /\ TaskMayRun
        /\ shownQty > 0 /\ newQuantity <= MaxQuantity
        /\ intended + change <= MaxQuantity
        /\ CartUpdateItem(newQuantity)
        /\ intended' = Max(0, intended + change)
        /\ ev' = Event("handleQuantityChange", ToString(change))
        /\ UNCHANGED << widget, panelOpen, panel, loading, timers, serverQty,
                        shownQty, cartCount, searchVars, quizVars, facetsVars,
                        quoteVars, uncaught, dataLayer, multiVars, themeVars,
                        pagerVars, peerItems >>

\* handleRemove(button): click on the remove button of the line
CartHandleRemove ==
    /\ IsCart /\ TaskMayRun
    /\ shownQty > 0
    /\ CartUpdateItem(0)
    /\ intended' = 0
    /\ ev' = Event("handleRemove", "")
    /\ UNCHANGED << widget, panelOpen, panel, loading, timers, serverQty, shownQty,
                    cartCount, searchVars, quizVars, facetsVars, quoteVars,
                    uncaught, dataLayer, multiVars, themeVars, pagerVars,
                    peerItems >>

\* The server handles a request: /cart/change.js sets the quantity of the
\* line (a line that has left the cart cannot be changed); every answer
\* shows the cart as it is then
CartServerHandles(r) ==
    LET qty == IF r.q = "change" /\ serverQty > 0 THEN r.qty ELSE serverQty
    IN  /\ IsCart /\ TaskMayRun
        /\ r \in requests /\ ~r.answered
        /\ serverQty' = qty
        /\ requests' = (requests \ {r}) \cup { [r EXCEPT !.qty = qty, !.answered = TRUE] }
        /\ ev' = Event("served", r.q)
        /\ UNCHANGED << widget, panelOpen, panel, loading, timers, shownQty,
                        intended, cartCount, searchVars, quizVars, facetsVars,
                        quoteVars, uncaught, dataLayer, multiVars, themeVars,
                        pagerVars, peerItems >>

\* An answer arrives.  change: updateItem dispatches cart:updated with
\* openDrawer false, and the listener of init calls refresh(); refresh: the
\* drawer body is replaced, then /cart.js is fetched; count: the counters
CartResponseArrives(r) ==
    LET rest == requests \ {r}
    IN  /\ IsCart /\ TaskMayRun
        /\ r \in requests /\ r.answered
        /\ requests' = CASE r.q = "change"  -> rest \cup { CartRequest(rest, "refresh", 0) }
                          [] r.q = "refresh" -> rest \cup { CartRequest(rest, "count", 0) }
                          [] r.q = "count"   -> rest
        /\ shownQty' = IF r.q = "refresh" THEN r.qty ELSE shownQty
        /\ cartCount' = IF r.q = "count" THEN r.qty ELSE cartCount
        /\ ev' = Event("arrived", r.q)
        /\ UNCHANGED << widget, panelOpen, panel, loading, timers, serverQty,
                        intended, searchVars, quizVars, facetsVars, quoteVars,
                        uncaught, dataLayer, multiVars, themeVars, pagerVars,
                        peerItems >>

CartNext ==
    \/ \E change \in { -1, 1 } : CartHandleQuantityChange(change)
    \/ CartHandleRemove
    \/ \E r \in requests : CartServerHandles(r)
    \/ \E r \in requests : CartResponseArrives(r)

-----------------------------------------------------------------------------
(* Specifications *)

\* The state after the page has loaded and the widget, one of W, was
\* constructed over a page whose quiz data is one of lists and whose
\* data-results-count is one of counts
InitWith(W, lists, counts) ==
    /\ widget \in W
    /\ panelOpen = FALSE
    /\ inputValue = ""
    /\ cache = << >>
    /\ panel = IF widget = "facets" THEN Content(StartUrl) ELSE EmptyPanel
    /\ selectedIndex = -1
    /\ followed = -1
    /\ loading = FALSE
    /\ focused = FALSE
    /\ timers = {}
    /\ debounceTimeout = 0
    /\ requests = {}
    /\ abortController = 0
    /\ ev = Event("init", "")
    /\ lastTyped = ""
    /\ sinceInput = 0
    /\ currentStep = 1
    /\ answers = << >>
    /\ resultsShown = FALSE
    /\ navHidden = TRUE
    /\ products \in lists
    /\ resultsCount \in counts
    /\ recommendations = << >>
    /\ storage \in IF widget = "quote" THEN StorageContents
                   ELSE { [json |-> "absent", elems |-> << >>] }
    /\ items = loadItems(storage)
    /\ uncaught = "none"
    /\ dataLayer = << >>
    /\ selected = << >>
    /\ continueDisabled = TRUE
    /\ peerItems = loadItems(storage)
    /\ handlerOrder \in IF widget = "theme" THEN HandlerOrders ELSE { "alone" }
    /\ themeStorage \in IF widget = "theme" THEN ThemeValues ELSE { "" }
    /\ prefersDark \in IF widget = "theme" THEN BOOLEAN ELSE { FALSE }
    /\ currentTheme = getInitialTheme(themeStorage, prefersDark)
    /\ legacyTheme = ""
    /\ darkClass = (currentTheme = "dark")
    /\ lightClass = (currentTheme # "dark")
    /\ transitioning = FALSE
    /\ control \in IF widget = "pager" THEN Controls ELSE { "button" }
    /\ lastPage \in IF widget = "pager" THEN 1..MaxPages ELSE { 1 }
    /\ currentPage = 1
    /\ isLoading = FALSE
    /\ nextPage = IF lastPage > 1 THEN 2 ELSE 0
    /\ controlHidden = FALSE
    /\ appended = << 1 >>
    /\ loadsOk = 0
    /\ serverQty = 1
    /\ shownQty = 1
    /\ intended = 1
    /\ cartCount = 1
    /\ priceTimeout = 0
    /\ location = StartUrl
    /\ listenersLive = TRUE

\* The page as the theme ships it: the catalogue in its order, and
\* this.resultsCount at its default (parseInt(undefined) || 3)
InitOf(W) == InitWith(W, { Catalogue }, { 3 })

\* Every widget of the model
Init ==
    InitOf({ "modal", "element", "quiz", "multiple", "facets", "quickview", "quote",
             "analytics", "theme", "pager", "cart" })
Next ==
    \/ ModalNext \/ ElemNext \/ QuizNext \/ FacetsNext \/ QuickViewNext
    \/ QuoteNext \/ AnalyticsNext \/ MultiNext \/ ThemeNext \/ PagerNext
    \/ CartNext
Spec == Init /\ [][Next]_vars

\* The two predictive-search widgets
SearchInit == InitOf({ "modal", "element" })
SearchNext == ModalNext \/ ElemNext
SpecSearch == SearchInit /\ [][SearchNext]_vars

\* The modal search alone
ModalInit == InitOf({ "modal" })
SpecModal == ModalInit /\ [][ModalNext]_vars

\* getRecommendations over every order of the catalogue
ScoreInit == InitWith({ "scoring" }, ProductLists, ResultsCounts)
SpecScore == ScoreInit /\ [][ScoreNext]_vars

\* The quote system alone
QuoteInit == InitOf({ "quote" })
SpecQuote == QuoteInit /\ [][QuoteNext]_vars

\* The quote system in two pages that share localStorage
SpecQuoteShared == QuoteInit /\ [][QuoteSharedNext]_vars

\* The cart drawer alone
CartInit == InitOf({ "cart" })
SpecCart == CartInit /\ [][CartNext]_vars

\* The theme toggle alone
ThemeInit == InitOf({ "theme" })
SpecTheme == ThemeInit /\ [][ThemeNext]_vars

\* Pagination alone, every fetch answered with a 2xx status, no step
\* postponed for ever
PagerInit == InitOf({ "pager" })
SpecPagerOk == PagerInit /\ [][PagerOkNext]_vars /\ WF_vars(PagerOkNext)

\* The custom-element search alone
ElemInit == InitOf({ "element" })
SpecElem == ElemInit /\ [][ElemNext]_vars

-----------------------------------------------------------------------------
(* Properties of the predictive-search widgets *)

\* C1: in every step that starts a search (modal search, element
\* getSearchResults), each fetch that was in flight before the step is aborted
\* after it, whether the new search is served by the cache or by the network.
\* Stated for queries that are no inherited property name (those are C4's
\* case), so that a violation rests on stored entries alone.
C1_SupersededFetchAborted ==
    [][ev'.op = "search" /\ ev'.arg \notin ObjectPrototypeKeys =>
         \A r \in requests : \A r2 \in requests' : r2.id = r.id => r2.aborted]_vars

\* C2: handling an input whose trimmed value is shorter than 2 characters
\* (modal handleInput, element onChange) issues no request and leaves the
\* results container empty.  Stated for a container that lists the rows of a
\* fetched result set, so that a violation does not rest on C4's case.
C2_ShortQueryClears ==
    [][/\ ev'.op \in { "handleInput", "onChange" } /\ Len(ev'.arg) < 2
       /\ panel.kind = "results"
       => requests' \subseteq requests /\ panel' = EmptyPanel]_vars

\* C3: a search for a query stored by a successful fetch issues no request and
\* renders the stored result set, and a stored entry is never evicted nor
\* replaced by another value.
C3_CacheServes ==
    [][/\ ev'.op = "search" /\ ev'.arg \in DOMAIN cache =>
            /\ requests' = requests
            /\ panel'.kind \in { "results", "noresults" }
            /\ panel'.rs = cache[ev'.arg]
       /\ \A q \in DOMAIN cache : q \in DOMAIN cache' /\ cache'[q] = cache[q]]_vars

\* A search was just served from a stored entry.
C3_Witness ==
    /\ ev.op = "search" /\ ev.arg \in DOMAIN cache
    /\ panel.kind = "results" /\ panel.rs = cache[ev.arg]
    /\ requests = {}

\* C4: a search for a query of length >= 2 that no successful fetch has stored
\* misses the cache and puts a request for it in flight.
C4_UnstoredQueryFetches ==
    [][ev'.op = "search" /\ Len(ev'.arg) >= 2 /\ ev'.arg \notin DOMAIN cache =>
         \E r \in requests' \ requests : r.q = ev'.arg /\ ~r.aborted]_vars

DebounceKinds == { "modalSearch", "elemInput" }

\* C5: at most one debounce timer is pending; at most one debounce callback
\* runs after the last input event, and the search it dispatches is for the
\* trimmed value of that event.
C5_Debounce ==
    /\ [](/\ Cardinality({ t \in timers : t.kind \in DebounceKinds }) <= 1
          /\ sinceInput <= 1)
    /\ [][sinceInput' = sinceInput + 1 /\ ev'.op \in { "search", "onChange" } =>
            ev'.arg = Trim(lastTyped)]_vars

\* The debounce callback ran once after a run of input events and dispatched
\* a search for the last value typed.
C5_Witness ==
    /\ sinceInput = 1 /\ ev.op = "search"
    /\ ev.arg = Trim(lastTyped) /\ lastTyped = " ab "

\* C8: a search that fails (network failure, non-2xx status, unparsable body)
\* shows the error message, stores nothing and starts neither a request nor a
\* timer; a search that ends by abort changes neither container nor cache.
C8_FailureHandling ==
    [][/\ ev'.op = "failed" =>
            /\ panel' = ErrorPanel
            /\ cache' = cache
            /\ requests' \subseteq requests
            /\ timers' = timers
       /\ ev'.op = "aborted" => panel' = panel /\ cache' = cache]_vars

\* A search has just failed on a non-2xx response, after results were stored
\* for another query.
C8_Witness ==
    /\ ev.op = "failed" /\ ev.arg = "status"
    /\ panel = ErrorPanel
    /\ DOMAIN cache # {}

\* C9: in the modal, selectedIndex is -1 or the index of a row in the container.
C9_SelectedIndexInRange ==
    IsModal =>
        \/ selectedIndex = -1
        \/ 0 <= selectedIndex /\ selectedIndex < Rows(panel)

\* C10: in the modal with n >= 1 rows, ArrowDown sets selectedIndex to
\* min(selectedIndex + 1, n - 1), ArrowUp to max(selectedIndex - 1, -1), and
\* the index stays within -1 .. n - 1 (no wrap-around).
C10_Clamp ==
    [][IsModal /\ ev'.op = "keydown" /\ Rows(panel) >= 1 =>
         /\ ev'.arg = "ArrowDown" =>
                selectedIndex' = Min(selectedIndex + 1, Rows(panel) - 1)
         /\ ev'.arg = "ArrowUp" =>
                selectedIndex' = Max(selectedIndex - 1, -1)
         /\ selectedIndex' \in -1..(Rows(panel) - 1)
         /\ selectedIndex = Rows(panel) - 1 /\ ev'.arg = "ArrowDown" =>
                selectedIndex' = selectedIndex
         /\ selectedIndex = 0 /\ ev'.arg = "ArrowUp" => selectedIndex' = -1]_vars

\* ArrowDown was pressed with the last of several rows selected.
C10_Witness ==
    /\ IsModal /\ ev = Event("keydown", "ArrowDown")
    /\ Rows(panel) >= 2 /\ selectedIndex = Rows(panel) - 1

RECURSIVE HasMarkup(_)
HasMarkup(html) ==
    Len(html) > 0 /\ (Head(html) \in { "<", ">" } \/ HasMarkup(Tail(html)))

\* C13: in both search widgets the no-results message shows the query text
\* HTML-escaped: no "<" or ">" of the query reaches the container as markup.
C13_NoResultsEscaped ==
    panel.kind = "noresults" => ~HasMarkup(panel.text)

\* C14: in the modal, the rows rendered for query q show their titles with the
\* occurrences of q marked, whatever the field holds when they are rendered.
C14_HighlightsQuery ==
    IsModal /\ panel.kind = "results" =>
        LET all == panel.rs.products \o panel.rs.articles \o panel.rs.pages
        IN  Titles(panel) = [i \in 1..Len(all) |-> highlightMatch(all[i], panel.q)]

C11_Wrap ==
    [][IsElem /\ ev'.op = "keydown" /\ Rows(panel) >= 1 =>
         /\ ev'.arg = "ArrowDown" =>
                selectedIndex' = IF selectedIndex = -1 THEN 0
                                 ELSE (selectedIndex + 1) % Rows(panel)
         /\ ev'.arg = "ArrowUp" =>
                selectedIndex' = IF selectedIndex > 0 THEN selectedIndex - 1
                                 ELSE Rows(panel) - 1
         /\ ev'.arg \in { "ArrowDown", "ArrowUp" } =>
                selectedIndex' \in 0..(Rows(panel') - 1)]_vars

\* ArrowUp has just selected the last of several items: it wrapped around.
C11_Witness ==
    /\ IsElem /\ ev = Event("keydown", "ArrowUp")
    /\ Rows(panel) >= 2 /\ selectedIndex = Rows(panel) - 1

-----------------------------------------------------------------------------
(* Properties of the quiz recommendations *)

\* C15: for a fixed product and otherwise fixed answers, one more matching
\* rule component (an answer given, one more focus tag selected) never lowers
\* the score of any product.
C15_ScoreMonotone ==
    [][IsScoring /\ ev'.op \in { "answer", "selectFocus" } =>
         \A i \in 1..Len(products) :
            score(products[i], answers') >= score(products[i], answers)]_vars

\* The products that are not discarded for a zero score, the rank of each by
\* descending score with ties in input order, and the first K of them
ReferenceTopK ==
    LET s(i)      == score(products[i], answers)
        kept      == { i \in 1..Len(products) : s(i) # 0 }
        ahead(i)  == { j \in kept : s(j) > s(i) \/ (s(j) = s(i) /\ j < i) }
        n         == Min(resultsCount, Cardinality(kept))
    IN  [r \in 1..n |->
           products[CHOOSE i \in kept : Cardinality(ahead(i)) = r - 1].handle]

\* C16: getRecommendations returns the reference result: zero-score products
\* discarded, the rest by descending score with ties in input order, cut to
\* the first K = resultsCount.
C16_TopK ==
    IsScoring /\ ev.op = "showResults" => recommendations = ReferenceTopK

-----------------------------------------------------------------------------
(* Properties of the quote system *)

\* Two values are lists of the same length whose elements give the same value
\* for every property at every position
SameItems(a, b) ==
    /\ a.type = b.type
    /\ Len(a.elems) = Len(b.elems)
    /\ \A i \in 1..Len(a.elems) :
          \A k \in DOMAIN a.elems[i] \cup DOMAIN b.elems[i] :
             Get(a.elems[i], k) = Get(b.elems[i], k)

\* C17: after addItem, a fresh loadItems() of localStorage['quoteItems'] gives
\* the items the instance holds in memory, in the same order.
C17_RoundTrip ==
    IsQuote /\ ev.op = "addItem" => SameItems(loadItems(storage), items)

\* Three items were added, one of them without variant id, and stored.
C17_Witness ==
    /\ IsQuote /\ ev.op = "addItem" /\ items.type = "array"
    /\ Len(items.elems) = 3 /\ Len(storage.elems) = 3
    /\ \E i \in 1..3 : items.elems[i].variantId = Undefined

\* C18: whatever localStorage['quoteItems'] held when the page loaded, addItem
\* and removeItem work on the list loadItems returned and complete without
\* throwing.
C18_LoadItemsGivesList ==
    IsQuote => uncaught = "none"

\* C19: a failed fetch, or a response that cannot be parsed, never leaves a
\* widget as an uncaught exception or an unhandled promise rejection.
C19_FailuresCaught ==
    ev.op = "failed" => uncaught = "none"

\* C20: a response whose status is not 2xx is a failed fetch: when loadPage
\* receives one, it pushes no history entry and leaves the product grid as
\* it was.
C20_NonOkIsFailure ==
    [][IsFacets /\ ev'.op = "loaded" /\ ev'.arg = "status"
          => location' = location /\ panel' = panel]_vars

\* C28: in the custom element the loading indicator is on exactly when a
\* search request that was not aborted is outstanding.
C28_LoadingTracksRequests ==
    IsElem => (loading <=> \E r \in requests : ~r.aborted)

\* The handler that ran last closed the search panel: close() of the modal,
\* Escape in the custom element, or its focus-out check finding the focus gone
JustClosed ==
    \/ IsModal /\ ev.op = "close"
    \/ IsElem /\ ev = Event("keydown", "Escape")
    \/ IsElem /\ ev.op = "focusOutTimer" /\ ~focused

\* The step is no user action: a timer fired or a fetch settled (a search for
\* a term the cache object inherits, the case of C4, is left aside)
BackgroundStep ==
    /\ ev'.op \in { "search", "onChange", "focus", "focusOutTimer", "rendered",
                    "failed", "aborted" }
    /\ ev'.arg \notin ObjectPrototypeKeys
    /\ focused' = focused

\* C25: once a search panel was closed, a debounce timer or a fetch that was
\* pending at that moment has no visible effect: the panel stays closed and
\* its results container stays empty.
C25_ClosedStaysClosed ==
    [][JustClosed /\ BackgroundStep => ~panelOpen' /\ panel' = EmptyPanel]_vars

\* C26: the quiz skips no question: whenever the results are shown, every
\* question step has its answer recorded in answers.
C26_NoQuestionSkipped ==
    IsQuiz /\ resultsShown =>
        \A i \in 1..totalSteps : QuizStepKeys[i] \in DOMAIN answers

\* C24: in a multiple-choice step at most maxSelections options are selected,
\* and selecting one more option while maxSelections are selected deselects
\* the option selected earliest.
C24_OldestDeselected ==
    [][IsMulti /\ ev'.op = "handleMultipleChoice" =>
          /\ Len(selected') <= maxSelections
          /\ (/\ Len(selected) = maxSelections
              /\ \A i \in 1..Len(selected) : selected[i] # ev'.arg)
             => selected' = Append(Tail(selected), ev'.arg)]_vars

\* C22: the current theme of the theme widget is 'dark' or 'light' after any
\* sequence of toggles, setTheme calls, system changes and storage events.
C22_ThemeIsDarkOrLight ==
    IsTheme => currentTheme \in { "dark", "light" }

\* C27: with the listeners of theme-toggle.js and global.js on the toggle
\* button, after a click the root element carries exactly one of dark-mode
\* and light-mode, and dark-mode exactly when the current theme is 'dark'.
C27_ClassesFollowTheme ==
    IsTheme /\ handlerOrder # "alone" /\ ev.op = "click" =>
        /\ darkClass # lightClass
        /\ darkClass <=> currentTheme = "dark"

\* C23: with every fetch succeeding, pagination ends with the products of
\* every page of the collection appended once each, in order.
C23_AllPagesLoaded ==
    <>(appended = [i \in 1..lastPage |-> i])

\* C29: at most one page load is in flight, isLoading is true exactly while
\* one is, and currentPage is 1 plus the number of loads that succeeded.
C29_OneLoadAtATime ==
    IsPager =>
        /\ Cardinality(requests) <= 1
        /\ isLoading <=> requests # {}
        /\ currentPage = 1 + loadsOk

\* C21: the whole-list overwrite of localStorage['quoteItems'] loses no
\* update: when either of two pages adds an item, every item that was stored
\* before is stored afterwards.
C21_NoLostUpdate ==
    [][IsQuote /\ ev'.op \in { "addItem", "peerAddItem" } /\ storage.json = "array" =>
          \A i \in 1..Len(storage.elems) :
             \E j \in 1..Len(storage'.elems) : storage'.elems[j] = storage.elems[i]]_vars

\* C30: once every request of the drawer has completed, the server holds for
\* the line its starting quantity plus the net of the plus and minus clicks
\* (0 after a remove), and the drawer shows the server's quantity.
C30_CartConverges ==
    IsCart /\ requests = {} =>
        /\ serverQty = intended
        /\ shownQty = serverQty

-----------------------------------------------------------------------------
(* Properties of timers and requests across the widgets *)

ScheduledKinds == { "modalSearch", "elemInput", "facetsPrice", "quizAdvance" }

\* C6: of each kind of delayed callback (search debounce, facets price
\* debounce, quiz auto-advance) at most one is pending at any time.
C6_TimersNeverStacked ==
    \A kind \in ScheduledKinds : Cardinality({ t \in timers : t.kind = kind }) <= 1

\* C7: a widget instance has at most one fetch in flight that is not aborted.
C7_OneRequestOutstanding ==
    \A r1, r2 \in requests :
        r1.owner = r2.owner /\ ~r1.aborted /\ ~r2.aborted => r1 = r2

====
